---- MODULE Spec2Model ----
(***************************************************************************)
(* Jeeves: a heatmap renderer.  new Jeeves(width, height, lut, min, max)   *)
(* creates a WebGL canvas and starts loading the lookup-table image;       *)
(* getHeatmap(data, width, height) returns a promise for the rendering of  *)
(* data, deferred until the lookup-table image has loaded.                 *)
(*                                                                         *)
(* JavaScript runs every handler to completion, so each handler (the       *)
(* constructor, a getHeatmap call, the image's load event) is one action.  *)
(* Numbers are exact rationals <<n, d>> with d > 0 in lowest terms.        *)
(***************************************************************************)
EXTENDS Integers, Sequences, FiniteSets, TLC

VARIABLES
    constructed,  \* the Jeeves constructor has returned
    canvas,       \* this.canvas: [width, height, pixels]
    lut,          \* this.lut: [isLoaded, onload, image]
    gl,           \* this.gl: [activeTexture, bound, textures]
    min,          \* this.min
    max,          \* this.max
    calls,        \* the getHeatmap calls made so far, in order, with their promises
    log,          \* the handlers the load event has run, in order
    loadState,    \* the image request: "none", "loading", "loaded", "failed"
    inp,          \* input of a pure function under check
    out           \* its output

vars == <<constructed, canvas, lut, gl, min, max, calls, log, loadState, inp, out>>

----------------------------------------------------------------------------
(* Bounds of the model *)

MaxDim == 2      \* canvas and data grids are at most MaxDim x MaxDim
MaxCalls == 2    \* getHeatmap calls per run
MaxVal == 2      \* data values and domain limits range over 0..MaxVal
MaxR == 4        \* lookup-table resolutions 2..MaxR
MaxSrcW == 3     \* lookup-table source rows of width 2..MaxSrcW
MaxAxis == 3     \* the resampler's grids are at most MaxAxis x MaxAxis

----------------------------------------------------------------------------
(* Exact arithmetic *)

Abs(a) == IF a < 0 THEN -a ELSE a

RECURSIVE GCD(_, _)
GCD(a, b) == IF b = 0 THEN a ELSE GCD(b, a % b)

\* n/d in lowest terms, d > 0
Rat(n, d) == LET g == GCD(Abs(n), d) IN <<n \div g, d \div g>>

Floor(n, d) == n \div d

Ceil(n, d) == -((-n) \div d)

Clamp(i, lo, hi) == IF i < lo THEN lo ELSE IF i > hi THEN hi ELSE i

RatLeq(p, q) == p[1] * q[2] <= q[1] * p[2]

----------------------------------------------------------------------------
(* WebGL textures.  A texture is [w, h, px]: px holds w*h texels row by    *)
(* row; w = 0 is a texture without an image.                               *)

NoTexture == [w |-> 0, h |-> 0, px |-> <<>>]

Texel(tex, i, j) == tex.px[j * tex.w + i + 1]

\* NEAREST with CLAMP_TO_EDGE along one axis: the texel holding coordinate s
NearestIndex(s, size) == Clamp(Floor(s[1] * size, s[2]), 0, size - 1)

\* LINEAR with CLAMP_TO_EDGE along one axis: the texels either side of
\* u = s*size - 1/2 and the weight f/den of the upper one
LinearAxis(s, size) ==
    LET num == 2 * s[1] * size - s[2]
        den == 2 * s[2]
        i0 == Floor(num, den)
    IN [lower |-> Clamp(i0, 0, size - 1),
        upper |-> Clamp(i0 + 1, 0, size - 1),
        f |-> num - i0 * den,
        den |-> den]

\* texture2D(tex, pos) under the given filter; a texture without an image
\* samples as (0, 0, 0, 1), given here as dflt
texture2D(tex, pos, filter, dflt) ==
    IF tex.w = 0 THEN dflt
    ELSE IF filter = "NEAREST"
    THEN <<Texel(tex, NearestIndex(pos[1], tex.w), NearestIndex(pos[2], tex.h)), 1>>
    ELSE LET ax == LinearAxis(pos[1], tex.w)
             ay == LinearAxis(pos[2], tex.h)
             gx == ax.den - ax.f
             gy == ay.den - ay.f
         IN Rat(  gx * gy * Texel(tex, ax.lower, ay.lower)
                + ax.f * gy * Texel(tex, ax.upper, ay.lower)
                + gx * ay.f * Texel(tex, ax.lower, ay.upper)
                + ax.f * ay.f * Texel(tex, ax.upper, ay.upper),
                ax.den * ay.den)

Filters == {"NEAREST", "LINEAR"}

\* The heatmap texture has MIN_FILTER NEAREST and MAG_FILTER LINEAR: LINEAR
\* applies when no axis is minified (at most one texel per pixel).
HeatmapFilter(tex, width, height) ==
    IF tex.w <= width /\ tex.h <= height THEN "LINEAR" ELSE "NEAREST"

----------------------------------------------------------------------------
(* The shaders *)

\* The varying pos at the centre of pixel (x, r) of a width x height
\* viewport, r counted from the top row of the image:
\* pos = (vec2(aVertexPosition.x, -aVertexPosition.y) + 1.0) / 2.0
\* (VertexShaderPosUnflipped: the same without the minus sign on y)
VertexShaderPosUnflipped(x, r, width, height) ==
    <<Rat(2 * x + 1, 2 * width), Rat(2 * (height - 1 - r) + 1, 2 * height)>>

VertexShaderPos(x, r, width, height) ==
    <<Rat(2 * x + 1, 2 * width), Rat(2 * r + 1, 2 * height)>>

\* The colour of a sampler without an image, and of the cleared canvas
Black == <<-1, 1>>
Cleared == <<-2, 1>>

\* val = texture2D(heatmap, pos).a; gl_FragColor = texture2D(lut, vec2(val, .5))
FragmentShader(lutTex, heatTex, pos, heatFilter, lutFilter) ==
    LET val == texture2D(heatTex, pos, heatFilter, <<1, 1>>)
    IN [val |-> val,
        color |-> texture2D(lutTex, <<val, <<1, 2>>>>, lutFilter, Black)]

----------------------------------------------------------------------------
(* The WebGL context *)

LutTextureId == 1     \* this.luttexture, the first texture created

createTexture(g) == [g EXCEPT !.textures = Append(@, NoTexture)]

activeTexture(g, unit) == [g EXCEPT !.activeTexture = unit]

bindTexture(g, id) == [g EXCEPT !.bound[g.activeTexture + 1] = id]

\* uploads to the texture bound on the active unit; an error without one
texImage2D(g, tex) ==
    LET id == g.bound[g.activeTexture + 1]
    IN IF id = 0 THEN g ELSE [g EXCEPT !.textures[id] = tex]

\* the texture a sampler uniform set to the given unit reads
Sampler(g, unit) ==
    IF g.bound[unit + 1] = 0 THEN NoTexture ELSE g.textures[g.bound[unit + 1]]

\* drawArrays over the full-viewport rectangle: one fragment per pixel
drawArrays(g, width, height, lutFilter) ==
    [k \in 1..(width * height) |->
        FragmentShader(Sampler(g, 0), Sampler(g, 1),
                       VertexShaderPos((k - 1) % width, (k - 1) \div width,
                                       width, height),
                       HeatmapFilter(Sampler(g, 1), width, height),
                       lutFilter)]

----------------------------------------------------------------------------
(* The program.  S is the state a handler runs on:                         *)
(* [lut, gl, canvas, calls, log].                                          *)

\* Jeeves.prototype._draw, given the filter the lookup-table read is done
\* with: which of the lookup table's two filters applies depends on how fast
\* val changes across neighbouring pixels, which the implementation estimates.
\* (_drawSkipBind: the same without binding the heatmap on unit 1)
_drawSkipBind(S, heatmap, lutFilter) ==
    LET g1 == bindTexture(activeTexture(S.gl, 0), LutTextureId)
        g2 == activeTexture(g1, 1)
        frags == drawArrays(g2, S.canvas.width, S.canvas.height, lutFilter)
    IN [S EXCEPT !.gl = g2,
                 !.canvas.pixels = [k \in DOMAIN frags |-> frags[k].color]]

_draw(S, heatmap, lutFilter) ==
    LET g1 == bindTexture(activeTexture(S.gl, 0), LutTextureId)
        g2 == bindTexture(activeTexture(g1, 1), heatmap)
        frags == drawArrays(g2, S.canvas.width, S.canvas.height, lutFilter)
    IN [S EXCEPT !.gl = g2,
                 !.canvas.pixels = [k \in DOMAIN frags |-> frags[k].color]]

\* The handler the constructor installs as this.lut.onload.  console.assert
\* only logs in a browser: the handler goes on whatever the height is.
lut_onload(S) ==
    LET g1 == bindTexture(S.gl, LutTextureId)
        g2 == texImage2D(g1, S.lut.image)
        g3 == bindTexture(g2, 0)
    IN [S EXCEPT !.lut.isLoaded = TRUE,
                 !.lut.uploads = @ + 1,
                 !.gl = g3]

\* The resolver of call c: upload the data, draw, resolve with the canvas.
\* Resolving a promise a second time changes nothing.  The data is a
\* width*height array the float-texture upload accepts.
resolver(S, c, lutFilter, by) ==
    LET call == S.calls[c]
        g1 == createTexture(S.gl)
        heatmap == Len(g1.textures)
        g2 == bindTexture(g1, heatmap)
        g3 == texImage2D(g2, [w |-> call.width, h |-> call.height,
                              px |-> call.data])
        S1 == _draw([S EXCEPT !.gl = g3], heatmap, lutFilter)
    IN IF call.state = "resolved" THEN S1
       ELSE [S1 EXCEPT !.calls[c] =
                [call EXCEPT !.state = "resolved",
                             !.result = S1.canvas.pixels,
                             !.lutFilter = lutFilter,
                             !.lutReady = S.lut.isLoaded
                                 /\ S.gl.textures[LutTextureId].w > 0,
                             !.resolvedBy = by]]

\* self.lut.onload = function () { if (oldfunction) oldfunction(); resolver(); }
\* A handler is the sequence of what it runs: 0 is the constructor's handler,
\* c >= 1 the resolver of call c.
\* (ChainOverwrite: the wrapper without the call of oldfunction;
\*  ChainResolverFirst: the wrapper calling resolver before oldfunction)
ChainOverwrite(oldfunction, c) == <<c>>

ChainResolverFirst(oldfunction, c) == <<c>> \o oldfunction

Chain(oldfunction, c) == Append(oldfunction, c)

RECURSIVE RunHandler(_, _, _)
RunHandler(S, handler, lutFilters) ==
    IF handler = <<>> THEN S
    ELSE LET h == Head(handler)
             S1 == IF h = 0 THEN lut_onload(S)
                   ELSE resolver(S, h, lutFilters[h], "load")
         IN RunHandler([S1 EXCEPT !.log = Append(@, h)], Tail(handler),
                       lutFilters)

State == [lut |-> lut, gl |-> gl, canvas |-> canvas, calls |-> calls,
          log |-> log]

Becomes(S) ==
    /\ lut' = S.lut
    /\ gl' = S.gl
    /\ canvas' = S.canvas
    /\ calls' = S.calls
    /\ log' = S.log

----------------------------------------------------------------------------
(* Inputs *)

Dims == 1..MaxDim

\* the grid whose k-th cell is (a*(k-1) + b) mod (MaxVal + 1)
Grid(w, h, a, b) == [k \in 1..(w * h) |-> (a * (k - 1) + b) % (MaxVal + 1)]

DataSets ==
    { [data |-> <<1>>, width |-> 1, height |-> 1],
      [data |-> <<0, 1>>, width |-> 2, height |-> 1],
      [data |-> <<0, 2, 1, 0>>, width |-> 2, height |-> 2] }

\* the decoded images a lookup-table url may name
LutImages ==
    { [w |-> 2, h |-> 1, px |-> <<10, 20>>],
      [w |-> 3, h |-> 1, px |-> <<10, 20, 30>>],
      [w |-> 2, h |-> 2, px |-> <<10, 20, 30, 40>>] }

Domain == 0..1

----------------------------------------------------------------------------
(* Actions *)

NoInput == [op |-> "none"]

Init ==
    /\ constructed = FALSE
    /\ canvas = [width |-> 0, height |-> 0, pixels |-> <<>>]
    /\ lut = [isLoaded |-> FALSE, onload |-> <<>>, image |-> NoTexture,
              uploads |-> 0]
    /\ gl = [activeTexture |-> 0, bound |-> <<0, 0>>, textures |-> <<>>]
    /\ min = 0
    /\ max = 0
    /\ calls = <<>>
    /\ log = <<>>
    /\ loadState = "none"
    /\ inp = NoInput
    /\ out = NoInput

\* new Jeeves(width, height, lut, min, max)
Jeeves(width, height, image, mn, mx) ==
    /\ ~constructed
    /\ constructed' = TRUE
    /\ canvas' = [width |-> width, height |-> height,
                  pixels |-> [k \in 1..(width * height) |-> Cleared]]
    /\ gl' = createTexture([activeTexture |-> 0, bound |-> <<0, 0>>,
                            textures |-> <<>>])
    /\ lut' = [isLoaded |-> FALSE, onload |-> <<0>>, image |-> image,
               uploads |-> 0]
    /\ loadState' = "loading"
    /\ min' = mn
    /\ max' = mx
    /\ UNCHANGED <<calls, log, inp, out>>

\* jeeves.getHeatmap(data, width, height)
getHeatmap(d) ==
    /\ constructed
    /\ Len(calls) < MaxCalls
    /\ LET c == Len(calls) + 1
           call == [data |-> d.data, width |-> d.width, height |-> d.height,
                    state |-> "pending", result |-> <<>>,
                    lutFilter |-> "none", lutReady |-> FALSE,
                    madeLoaded |-> lut.isLoaded, resolvedBy |-> "none"]
           S == [State EXCEPT !.calls = Append(@, call)]
       IN IF lut.isLoaded
          THEN \E f \in Filters : Becomes(resolver(S, c, f, "call"))
          ELSE Becomes([S EXCEPT !.lut.onload = Chain(@, c)])
    /\ UNCHANGED <<constructed, min, max, loadState, inp, out>>

\* the image's load event: the browser calls this.lut.onload
LoadEvent ==
    /\ loadState = "loading"
    /\ loadState' = "loaded"
    /\ \E fs \in [1..Len(calls) -> Filters] :
           Becomes(RunHandler(State, lut.onload, fs))
    /\ UNCHANGED <<constructed, min, max, inp, out>>

\* the image cannot be fetched or decoded: no load event ever fires
LoadFails ==
    /\ loadState = "loading"
    /\ loadState' = "failed"
    /\ UNCHANGED <<constructed, canvas, lut, gl, min, max, calls, log, inp, out>>

Construct ==
    \E width \in Dims, height \in Dims, image \in LutImages,
       mn \in Domain, mx \in Domain :
        Jeeves(width, height, image, mn, mx)

Call == \E d \in DataSets : getHeatmap(d)

Next == Construct \/ Call \/ LoadEvent \/ LoadFails

Spec == Init /\ [][Next]_vars

----------------------------------------------------------------------------
(* One draw, checked as a function of its inputs: a renderer whose         *)
(* lookup-table image has loaded renders one data grid.                    *)

Machine0 ==
    /\ constructed = FALSE
    /\ canvas = [width |-> 0, height |-> 0, pixels |-> <<>>]
    /\ lut = [isLoaded |-> FALSE, onload |-> <<>>, image |-> NoTexture,
              uploads |-> 0]
    /\ gl = [activeTexture |-> 0, bound |-> <<0, 0>>, textures |-> <<>>]
    /\ min = 0
    /\ max = 0
    /\ calls = <<>>
    /\ log = <<>>
    /\ loadState = "none"

MachineUnchanged ==
    UNCHANGED <<constructed, canvas, lut, gl, min, max, calls, log, loadState>>

DrawInputs ==
    { [op |-> "draw", width |-> width, height |-> height,
       heat |-> [w |-> w, h |-> h, px |-> Grid(w, h, a, b)],
       image |-> image, min |-> mn, max |-> mx, lutFilter |-> f] :
        width \in Dims, height \in Dims, w \in Dims, h \in Dims,
        a \in 0..1, b \in 0..MaxVal,
        image \in {i \in LutImages : i.h = 1},
        mn \in 0..MaxVal, mx \in 0..MaxVal, f \in Filters }

\* the state new Jeeves(...) and the load event leave, with one pending call
LoadedState(i) ==
    lut_onload(
        [lut |-> [isLoaded |-> FALSE, onload |-> <<0>>, image |-> i.image,
                  uploads |-> 0],
         gl |-> createTexture([activeTexture |-> 0, bound |-> <<0, 0>>,
                               textures |-> <<>>]),
         canvas |-> [width |-> i.width, height |-> i.height,
                     pixels |-> [k \in 1..(i.width * i.height) |-> Cleared]],
         calls |-> << [data |-> i.heat.px, width |-> i.heat.w,
                       height |-> i.heat.h, state |-> "pending",
                       result |-> <<>>, lutFilter |-> "none",
                       lutReady |-> FALSE, madeLoaded |-> TRUE,
                       resolvedBy |-> "none"] >>,
         log |-> <<>>])

InitDraw ==
    /\ Machine0
    /\ inp \in DrawInputs
    /\ inp.min < inp.max
    /\ out = NoInput

DrawStep ==
    /\ inp.op = "draw"
    /\ out = NoInput
    /\ LET S1 == resolver(LoadedState(inp), 1, inp.lutFilter, "call")
           frags == drawArrays(S1.gl, inp.width, inp.height, inp.lutFilter)
       IN out' = [pixels |-> S1.calls[1].result,
                  vals |-> [k \in DOMAIN frags |-> frags[k].val]]
    /\ UNCHANGED inp
    /\ MachineUnchanged

SpecDraw == InitDraw /\ [][DrawStep]_vars

----------------------------------------------------------------------------
(* Properties of the program *)

Resolved(c) == calls[c].state = "resolved"

LutUploaded == gl.textures # <<>> /\ gl.textures[LutTextureId] # NoTexture

\* C1: a getHeatmap promise is never resolved before the lookup-table image
\* has loaded and the constructor's onload handler has uploaded the texture;
\* a call made after the load is resolved inside the call, a call made
\* before it is resolved by the load event and by nothing else.
C1_ResolvedOnlyAfterLutLoaded ==
    \A c \in DOMAIN calls :
        /\ Resolved(c) => calls[c].lutReady /\ lut.isLoaded /\ LutUploaded
        /\ calls[c].madeLoaded => Resolved(c) /\ calls[c].resolvedBy = "call"
        /\ ~calls[c].madeLoaded /\ Resolved(c) => calls[c].resolvedBy = "load"
        /\ ~calls[c].madeLoaded /\ loadState # "loaded" => ~Resolved(c)

C1_Witness ==
    \E c, e \in DOMAIN calls :
        /\ calls[c].madeLoaded /\ calls[c].resolvedBy = "call"
        /\ ~calls[e].madeLoaded /\ calls[e].resolvedBy = "load"

\* C2: a lookup-table image whose height is not 1 is rejected: its pixels
\* are never uploaded as the lookup-table texture and no getHeatmap promise
\* is resolved with a rendering made from it.
C2_NonUnitHeightRejected ==
    constructed /\ lut.image.h # 1 =>
        /\ ~lut.isLoaded
        /\ ~LutUploaded
        /\ \A c \in DOMAIN calls : ~Resolved(c)

\* C3: no renderer exists whose domain is degenerate: construction with
\* min >= max fails, so every constructed renderer has min < max.
C3_NoDegenerateDomain == constructed => min < max

\* C8: every resolved getHeatmap result is the rendering of that call's own
\* data, width and height through the lookup-table image; and no getHeatmap
\* call changes the lookup-table texture, min or max.
Rendering(call) ==
    LET heat == [w |-> call.width, h |-> call.height, px |-> call.data]
    IN [k \in 1..(canvas.width * canvas.height) |->
           FragmentShader(lut.image, heat,
                          VertexShaderPos((k - 1) % canvas.width,
                                          (k - 1) \div canvas.width,
                                          canvas.width, canvas.height),
                          HeatmapFilter(heat, canvas.width, canvas.height),
                          call.lutFilter).color]

C8_OwnResult ==
    \A c \in DOMAIN calls : Resolved(c) => calls[c].result = Rendering(calls[c])

C8_CallsAreIndependent ==
    /\ []C8_OwnResult
    /\ [][constructed =>
            /\ min' = min
            /\ max' = max
            /\ LutUploaded => gl'.textures[LutTextureId] = gl.textures[LutTextureId]
            /\ Len(calls') > Len(calls) =>
                   gl'.textures[LutTextureId] = gl.textures[LutTextureId]
            /\ \A c \in DOMAIN calls :
                   Resolved(c) => calls'[c].result = calls[c].result]_vars

C8_Witness ==
    /\ Len(calls) >= 2
    /\ Resolved(1) /\ Resolved(2)
    /\ calls[1].data # calls[2].data
    /\ calls[1].result # calls[2].result
    /\ calls[1].madeLoaded # calls[2].madeLoaded

\* C10: the load event runs the constructor's handler once and first, then
\* the resolvers of the calls made before it, each once and in call order;
\* no pending call is dropped from the handler; without the load event no
\* pending promise is resolved.
PendingAtLoad == {c \in DOMAIN calls : ~calls[c].madeLoaded}

C10_LoadRunsHandlersInOrder ==
    LET n == Cardinality(PendingAtLoad)
    IN /\ PendingAtLoad = 1..n
       /\ constructed /\ loadState # "loaded" =>
              /\ lut.onload = [k \in 1..(n + 1) |-> k - 1]
              /\ log = <<>>
              /\ lut.uploads = 0
              /\ \A c \in DOMAIN calls : calls[c].state = "pending"
       /\ loadState = "loaded" =>
              /\ log = [k \in 1..(n + 1) |-> k - 1]
              /\ lut.uploads = 1
              /\ \A c \in PendingAtLoad : Resolved(c)

C10_Witness ==
    /\ loadState = "loaded"
    /\ Len(log) >= 3
    /\ Resolved(1) /\ Resolved(2)

----------------------------------------------------------------------------
(* Properties of one draw *)

Drawn == out # NoInput /\ inp.op = "draw"

LutFirst == <<inp.image.px[1], 1>>

LutLast == <<inp.image.px[inp.image.w], 1>>

\* C4: with min < max, every pixel whose value is at most min gets the
\* lookup table's leftmost colour and every pixel whose value is at least
\* max gets its rightmost colour.
C4_Saturation ==
    Drawn /\ inp.min < inp.max =>
        \A k \in DOMAIN out.vals :
            /\ RatLeq(out.vals[k], <<inp.min, 1>>) => out.pixels[k] = LutFirst
            /\ RatLeq(<<inp.max, 1>>, out.vals[k]) => out.pixels[k] = LutLast

\* C5: a grid drawn on a canvas of its own dimensions is sampled cell for
\* cell: every sample position lands exactly on a texel (weight f = 0, lower
\* index the pixel's own) and the sampled value is the input cell.
C5_ResampleIdentity ==
    Drawn /\ inp.width = inp.heat.w /\ inp.height = inp.heat.h =>
        \A k \in DOMAIN out.vals :
            LET pos == VertexShaderPos((k - 1) % inp.width,
                                       (k - 1) \div inp.width,
                                       inp.width, inp.height)
                ax == LinearAxis(pos[1], inp.heat.w)
                ay == LinearAxis(pos[2], inp.heat.h)
            IN /\ out.vals[k] = <<inp.heat.px[k], 1>>
               /\ ax.f = 0 /\ ax.lower = (k - 1) % inp.width
               /\ ay.f = 0 /\ ay.lower = (k - 1) \div inp.width

C5_Witness ==
    /\ Drawn
    /\ inp.width = 2 /\ inp.height = 2 /\ inp.heat.w = 2 /\ inp.heat.h = 2
    /\ inp.heat.px[1] # inp.heat.px[3]
    /\ out.vals[3] = <<inp.heat.px[3], 1>>

----------------------------------------------------------------------------
(* The numeric pipeline: LutBuilder, Resampler, ColorMapper *)

RatAdd(p, q) == Rat(p[1] * q[2] + q[1] * p[2], p[2] * q[2])

RatSub(p, q) == Rat(p[1] * q[2] - q[1] * p[2], p[2] * q[2])

RatMul(p, q) == Rat(p[1] * q[1], p[2] * q[2])

\* a read outside an array
NaN == <<0, 0>>

At(grid, k) == IF k \in DOMAIN grid THEN grid[k] ELSE NaN

\* a + f*(b - a)
Lerp(a, b, f) ==
    IF a = NaN \/ b = NaN THEN NaN ELSE RatAdd(a, RatMul(f, RatSub(b, a)))

\* LutBuilder: pos = i/(R-1) * (sourceWidth-1), lower = floor(pos),
\* upper = ceil(pos), f = pos - lower
\* (LutPosOverR: the same dividing by R)
LutPosOverR(i, R, sourceWidth) ==
    LET num == i * (sourceWidth - 1)
        den == R
    IN [lower |-> Floor(num, den), upper |-> Ceil(num, den),
        f |-> Rat(num - Floor(num, den) * den, den)]

LutPos(i, R, sourceWidth) ==
    LET num == i * (sourceWidth - 1)
        den == R - 1
    IN [lower |-> Floor(num, den), upper |-> Ceil(num, den),
        f |-> Rat(num - Floor(num, den) * den, den)]

\* one channel of an entry: (1-f)*source[lower] + f*source[upper], stored
\* as a byte
LutChannel(a, b, f) == Floor((f[2] - f[1]) * a + f[1] * b, f[2])

Channels == 1..4

LutBuild(source, R) ==
    [k \in 1..R |->
        LET p == LutPos(k - 1, R, Len(source))
        IN [ch \in Channels |->
               LutChannel(source[p.lower + 1][ch], source[p.upper + 1][ch], p.f)]]

\* Resampler, one axis: val = (x + 0.5)/outN * dataN - 0.5,
\* lower = max(0, floor(val)), upper = min(dataN-1, ceil(val)), f = val - lower
\* (ResampleAxisUnclamped: the same without the clamp of upper)
ResampleAxisUnclamped(x, outN, dataN) ==
    LET num == (2 * x + 1) * dataN - outN
        den == 2 * outN
        lower == IF Floor(num, den) < 0 THEN 0 ELSE Floor(num, den)
        upper == Ceil(num, den)
    IN [lower |-> lower, upper |-> upper, f |-> Rat(num - lower * den, den)]

ResampleAxis(x, outN, dataN) ==
    LET num == (2 * x + 1) * dataN - outN
        den == 2 * outN
        lower == IF Floor(num, den) < 0 THEN 0 ELSE Floor(num, den)
        upper == IF Ceil(num, den) > dataN - 1 THEN dataN - 1 ELSE Ceil(num, den)
    IN [lower |-> lower, upper |-> upper, f |-> Rat(num - lower * den, den)]

\* pass 1 (horizontal): dataW x dataH -> outW x dataH
ResampleH(data, dataW, dataH, outW) ==
    [k \in 1..(outW * dataH) |->
        LET x == (k - 1) % outW
            y == (k - 1) \div outW
            p == ResampleAxis(x, outW, dataW)
        IN Lerp(At(data, p.lower + y * dataW + 1),
                At(data, p.upper + y * dataW + 1), p.f)]

\* pass 2 (vertical): outW x dataH -> outW x outH
ResampleV(inter, outW, dataH, outH) ==
    [k \in 1..(outW * outH) |->
        LET x == (k - 1) % outW
            y == (k - 1) \div outW
            p == ResampleAxis(y, outH, dataH)
        IN Lerp(At(inter, x + p.lower * outW + 1),
                At(inter, x + p.upper * outW + 1), p.f)]

Resample(data, dataW, dataH, outW, outH) ==
    ResampleV(ResampleH(data, dataW, dataH, outW), outW, dataH, outH)

\* round(x), half up
Round(x) == Floor(2 * x[1] + x[2], 2 * x[2])

\* ColorMapper: t = (v - min)/(max - min), idx = round(t * (R-1)),
\* clamped to [0, R-1]
\* (MapIndexTimesR: the same scaling t by R)
MapIndexTimesR(v, R, domainMin, domainMax) ==
    LET t == Rat(v[1] - domainMin * v[2], (domainMax - domainMin) * v[2])
    IN Clamp(Round(RatMul(t, <<R, 1>>)), 0, R - 1)

MapIndex(v, R, domainMin, domainMax) ==
    LET t == Rat(v[1] - domainMin * v[2], (domainMax - domainMin) * v[2])
    IN Clamp(Round(RatMul(t, <<R - 1, 1>>)), 0, R - 1)

Map(resampled, table, domainMin, domainMax) ==
    [k \in DOMAIN resampled |->
        table[MapIndex(resampled[k], Len(table), domainMin, domainMax) + 1]]

----------------------------------------------------------------------------
(* The pipeline's functions, each applied to bounded inputs *)

Palette == { <<255, 0, 0, 255>>, <<0, 0, 255, 255>>, <<0, 255, 0, 128>> }

SourceRows == UNION { [1..w -> Palette] : w \in 2..MaxSrcW }

LutInputs == { [op |-> "lut", source |-> src, R |-> R] :
                 src \in SourceRows, R \in 2..MaxR }

InitLut == Machine0 /\ inp \in LutInputs /\ out = NoInput

LutBuildStep ==
    /\ inp.op = "lut"
    /\ out = NoInput
    /\ out' = [table |-> LutBuild(inp.source, inp.R),
               pos |-> [k \in 1..inp.R |-> LutPos(k - 1, inp.R, Len(inp.source))]]
    /\ UNCHANGED inp
    /\ MachineUnchanged

SpecLut == InitLut /\ [][LutBuildStep]_vars

Axis == 1..MaxAxis

ResampleInputs ==
    { [op |-> "resample", dataW |-> w, dataH |-> h, outW |-> ow, outH |-> oh,
       data |-> [k \in 1..(w * h) |-> <<Grid(w, h, a, b)[k], 1>>]] :
        w \in Axis, h \in Axis, ow \in Axis, oh \in Axis,
        a \in 0..1, b \in 0..MaxVal }

InitResample == Machine0 /\ inp \in ResampleInputs /\ out = NoInput

ResampleStep ==
    /\ inp.op = "resample"
    /\ out = NoInput
    /\ out' = [inter |-> ResampleH(inp.data, inp.dataW, inp.dataH, inp.outW),
               grid |-> Resample(inp.data, inp.dataW, inp.dataH,
                                 inp.outW, inp.outH),
               h |-> [x \in 0..(inp.outW - 1) |->
                         ResampleAxis(x, inp.outW, inp.dataW)],
               v |-> [y \in 0..(inp.outH - 1) |->
                         ResampleAxis(y, inp.outH, inp.dataH)]]
    /\ UNCHANGED inp
    /\ MachineUnchanged

SpecResample == InitResample /\ [][ResampleStep]_vars

\* the value the index i of an R-entry table stands for:
\* min + i/(R-1) * (max - min)
ValueOfIndex(i, R, domainMin, domainMax) ==
    Rat(domainMin * (R - 1) + i * (domainMax - domainMin), R - 1)

MapInputs ==
    { [op |-> "map", R |-> R, min |-> mn, max |-> mx, v |-> v, i |-> -1] :
        R \in 2..MaxR, mn \in (-MaxVal)..MaxVal, mx \in (-MaxVal)..MaxVal,
        v \in { Rat(n, 2) : n \in (-2 * MaxVal - 2)..(2 * MaxVal + 2) } }
    \cup
    { [op |-> "map", R |-> R, min |-> mn, max |-> mx,
       v |-> ValueOfIndex(i, R, mn, mx), i |-> i] :
        R \in 2..MaxR, mn \in (-MaxVal)..MaxVal, mx \in (-MaxVal)..MaxVal,
        i \in 0..(MaxR - 1) }

\* the table of the map check: red to blue in R entries
MapTable(R) == LutBuild(<< <<255, 0, 0, 255>>, <<0, 0, 255, 255>> >>, R)

InitMap ==
    /\ Machine0
    /\ inp \in MapInputs
    /\ inp.min < inp.max
    /\ inp.i < inp.R
    /\ out = NoInput

MapStep ==
    /\ inp.op = "map"
    /\ out = NoInput
    /\ out' = [idx |-> MapIndex(inp.v, inp.R, inp.min, inp.max),
               pixels |-> Map(<<inp.v>>, MapTable(inp.R), inp.min, inp.max)]
    /\ UNCHANGED inp
    /\ MachineUnchanged

SpecMap == InitMap /\ [][MapStep]_vars

----------------------------------------------------------------------------
(* Properties of the pipeline *)

\* C6: a table built from a source row of width >= 2 with R >= 2 has R
\* entries, its first entry is the source's leftmost pixel and its last the
\* source's rightmost pixel in all four channels, and every source position
\* used lies within the row.
C6_LutEndpoints ==
    out # NoInput /\ inp.op = "lut" =>
        /\ Len(out.table) = inp.R
        /\ \A ch \in Channels :
               /\ out.table[1][ch] = inp.source[1][ch]
               /\ out.table[inp.R][ch] = inp.source[Len(inp.source)][ch]
        /\ \A k \in 1..inp.R :
               /\ 0 <= out.pos[k].lower
               /\ out.pos[k].lower <= out.pos[k].upper
               /\ out.pos[k].upper <= Len(inp.source) - 1

C6_Witness ==
    /\ out # NoInput /\ inp.op = "lut"
    /\ Len(inp.source) = 3 /\ inp.R = 4
    /\ inp.source[1] # inp.source[3]
    /\ out.table[4] = inp.source[3]
    /\ out.pos[2].lower # out.pos[2].upper

AxisInside(p, dataN) ==
    0 <= p.lower /\ p.lower <= p.upper /\ p.upper <= dataN - 1

C9_ResampleClamped ==
    out # NoInput /\ inp.op = "resample" =>
        /\ \A x \in DOMAIN out.h : AxisInside(out.h[x], inp.dataW)
        /\ \A y \in DOMAIN out.v : AxisInside(out.v[y], inp.dataH)
        /\ \A k \in DOMAIN out.inter : out.inter[k] # NaN
        /\ \A k \in DOMAIN out.grid : out.grid[k] # NaN
        /\ inp.dataW = 1 =>
               /\ \A x \in DOMAIN out.h : out.h[x].lower = 0 /\ out.h[x].upper = 0
               /\ \A k \in DOMAIN out.inter :
                      out.inter[k] = inp.data[(k - 1) \div inp.outW + 1]
        /\ inp.dataH = 1 =>
               /\ \A y \in DOMAIN out.v : out.v[y].lower = 0 /\ out.v[y].upper = 0
               /\ \A k \in DOMAIN out.grid :
                      out.grid[k] = out.inter[((k - 1) % inp.outW) + 1]
        /\ inp.dataW = 1 /\ inp.dataH = 1 =>
               \A k \in DOMAIN out.grid : out.grid[k] = inp.data[1]

C9_Witness ==
    /\ out # NoInput /\ inp.op = "resample"
    /\ inp.dataW = 1 /\ inp.dataH = 2 /\ inp.outW = 3 /\ inp.outH = 3
    /\ inp.data[1] # inp.data[2]
    /\ out.v[0].lower = 0 /\ out.v[2].upper = 1

====
